---- MODULE Spec2Model ----
(***************************************************************************)
(* Typestate model of stated::online_shop::Customer<S> (src/src/lib.rs).   *)
(* The type parameter S is the variable `state`; the private field         *)
(* shopping_cart is the variable of the same name.  Methods take `self`    *)
(* by value, so every call moves the binding it is called on; bindings are *)
(* modelled as numbered handles.  println! output is the variable stdout.  *)
(***************************************************************************)
EXTENDS Integers, Sequences, FiniteSets, TLC

\* ---------------------------------------------------------------- bounds
\* Longest call sequence explored (visit_site included).
MaxOps == 6

\* ------------------------------------------------------------- constants
\* Largest value of the item type u8 (shopping_cart: Vec<u8>, item: u8).
U8_MAX == 255

u8 == 0..U8_MAX

\* Integers a caller may want to put in the cart; some lie outside u8.
IntInputs == {-1, 13, 20, 255, 256}

\* The states of the flow.  "None" is the program before visit_site() has
\* been called, "Left" is the end state that the source leaves
\* unrepresented (the value has been consumed).
TypeStates == {"Browsing", "Shopping", "Checkout"}

\* state          the type parameter S of the Customer<S> value (lib.rs:13-16)
\* shopping_cart  the field of the same name, a Vec<u8> (lib.rs:14)
\* live           the bindings that hold the customer and have not been moved
\* moved          the bindings a method call has consumed (`self` by value)
\* stdout         the lines printed so far
\* hist           the calls made so far, in order (history variable)
\* panicked       whether a call has panicked
\* main           the locals of fn main and its position (main.rs); idle while
\*                the library is driven by arbitrary callers
VARIABLES state, shopping_cart, live, moved, stdout, hist, panicked, main

vars == <<state, shopping_cart, live, moved, stdout, hist, panicked, main>>

Last(s) == s[Len(s)]

\* ------------------------------------------------------------ Vec<u8>
VecNew == <<>>

VecPush_narrow(v, x) == Append(v, x % 128)

VecPush(v, x) == Append(v, x)

VecPop_front(v) ==
    IF Len(v) = 0
    THEN [some |-> FALSE, val |-> <<>>, vec |-> v]
    ELSE [some |-> TRUE, val |-> <<v[1]>>, vec |-> Tail(v)]

\* Vec::pop: Option of the last element, and the vector without it.
VecPop(v) ==
    IF Len(v) = 0
    THEN [some |-> FALSE, val |-> <<>>, vec |-> v]
    ELSE [some |-> TRUE, val |-> <<v[Len(v)]>>, vec |-> SubSeq(v, 1, Len(v) - 1)]

VecClear_keep(v) == v

VecClear(v) == <<>>

\* ------------------------------------------------------------ println!
\* One line of output: the format string, the item printed (if any) and the
\* cart printed with {:?} (if any).
Line(text, item, cart) == [text |-> text, item |-> item, cart |-> cart]

\* ------------------------------------------------------------- methods
\* A method result: the type state of the returned value ("Left" when the
\* method returns nothing), the cart the value carries, the lines printed,
\* whether a Customer is returned, and whether the call panicked.
Result(to, cart, out, ret) ==
    [to |-> to, cart |-> cart, out |-> out, ret |-> ret, panic |-> FALSE]

visit_site_shopping ==
    Result("Shopping", VecNew, <<Line("Hi site!", <<>>, <<>>)>>, TRUE)

visit_site ==
    Result("Browsing", VecNew, <<Line("Hi site!", <<>>, <<>>)>>, TRUE)

Browsing_leave_back(cart) ==
    Result("Browsing", cart,
           <<Line("Not buying anything, bye site!", <<>>, <<>>)>>, TRUE)

Browsing_leave(cart) ==
    Result("Left", cart,
           <<Line("Not buying anything, bye site!", <<>>, <<>>)>>, FALSE)

Browsing_add_item(cart, item) ==
    LET pushed == VecPush(cart, item)
    IN  Result("Shopping", pushed,
               <<Line("Added {} to cart ({:?})", <<item>>, <<pushed>>)>>, TRUE)

Shopping_add_item_stale(cart, item) ==
    LET pushed == VecPush(cart, item)
    IN  Result("Shopping", pushed,
               <<Line("Added {} to cart ({:?})", <<item>>, <<cart>>)>>, TRUE)

Shopping_add_item(cart, item) ==
    LET pushed == VecPush(cart, item)
    IN  Result("Shopping", pushed,
               <<Line("Added {} to cart ({:?})", <<item>>, <<pushed>>)>>, TRUE)

Shopping_pop_item_keep(cart) ==
    Result("Shopping", cart, <<>>, TRUE)

Shopping_pop_item_unwrap(cart) ==
    LET popped == VecPop(cart)
    IN  [Result("Shopping", popped.vec,
                IF popped.some
                THEN <<Line("Removed {} from cart ({:?})", popped.val, <<popped.vec>>)>>
                ELSE <<>>, TRUE)
         EXCEPT !.panic = ~popped.some]

Shopping_pop_item(cart) ==
    LET popped == VecPop(cart)
    IN  Result("Shopping", popped.vec,
               IF popped.some
               THEN <<Line("Removed {} from cart ({:?})", popped.val, <<popped.vec>>)>>
               ELSE <<>>, TRUE)

Shopping_clear_cart_stay(cart) ==
    Result("Shopping", VecClear(cart),
           <<Line("Cart has been cleared.", <<>>, <<>>)>>, TRUE)

Shopping_clear_cart_keep(cart) ==
    Result("Browsing", cart,
           <<Line("Cart has been cleared.", <<>>, <<>>)>>, TRUE)

Shopping_clear_cart(cart) ==
    Result("Browsing", VecClear(cart),
           <<Line("Cart has been cleared.", <<>>, <<>>)>>, TRUE)

Shopping_proceed_to_checkout_nonempty(cart) ==
    [Result("Checkout", cart,
            <<Line("Proceeding to checkout.", <<>>, <<>>)>>, TRUE)
     EXCEPT !.panic = (cart = <<>>)]

Shopping_proceed_to_checkout_fresh(cart) ==
    Result("Checkout", VecNew,
           <<Line("Proceeding to checkout.", <<>>, <<>>)>>, TRUE)

Shopping_proceed_to_checkout(cart) ==
    Result("Checkout", cart,
           <<Line("Proceeding to checkout.", <<>>, <<>>)>>, TRUE)

Checkout_cancel_checkout_fresh(cart) ==
    Result("Shopping", VecNew,
           <<Line("Cancelling checkout, continue shopping.", <<>>, <<>>)>>, TRUE)

Checkout_cancel_checkout(cart) ==
    Result("Shopping", cart,
           <<Line("Cancelling checkout, continue shopping.", <<>>, <<>>)>>, TRUE)

Checkout_finalise_payment_stay(cart) ==
    Result("Checkout", cart,
           <<Line("Done paying for the items, bye site!", <<>>, <<>>)>>, TRUE)

Checkout_finalise_payment(cart) ==
    Result("Left", cart,
           <<Line("Done paying for the items, bye site!", <<>>, <<>>)>>, FALSE)

\* --------------------------------------------------------- impl blocks
Impls_leave_anywhere ==
    { <<"Browsing", "leave">>, <<"Browsing", "add_item">>,
      <<"Shopping", "add_item">>, <<"Shopping", "pop_item">>,
      <<"Shopping", "clear_cart">>, <<"Shopping", "proceed_to_checkout">>,
      <<"Checkout", "cancel_checkout">>, <<"Checkout", "finalise_payment">>,
      <<"Checkout", "leave">> }

\* <<S, m>>: method m(self, ..) is defined in impl Customer<S>.
Impls ==
    { <<"Browsing", "leave">>, <<"Browsing", "add_item">>,
      <<"Shopping", "add_item">>, <<"Shopping", "pop_item">>,
      <<"Shopping", "clear_cart">>, <<"Shopping", "proceed_to_checkout">>,
      <<"Checkout", "cancel_checkout">>, <<"Checkout", "finalise_payment">> }

\* The methods that can be called on a value of type Customer<S>.
Callable(S) == { c[2] : c \in { d \in Impls : d[1] = S } }

\* The parameter type of add_item is u8.
AddItemAccepts(n) == n \in u8

Receiver_borrow(op) == IF op = "pop_item" THEN "&self" ELSE "self"

\* How a method takes its receiver: every method takes `self` by value.
Receiver(op) == "self"

\* The body that a call of op on a Customer<S> runs.
Method(S, op, cart, args) ==
    CASE op = "leave"               -> Browsing_leave(cart)
      [] op = "add_item"            -> IF S = "Browsing"
                                       THEN Browsing_add_item(cart, args[1])
                                       ELSE Shopping_add_item(cart, args[1])
      [] op = "pop_item"            -> Shopping_pop_item(cart)
      [] op = "clear_cart"          -> Shopping_clear_cart(cart)
      [] op = "proceed_to_checkout" -> Shopping_proceed_to_checkout(cart)
      [] op = "cancel_checkout"     -> Checkout_cancel_checkout(cart)
      [] op = "finalise_payment"    -> Checkout_finalise_payment(cart)

\* The binding that receives the value returned by the next call.
NextHandle == Len(hist) + 1

\* What the call history records of one call.
Event(op, args, subject, r) ==
    [op |-> op, args |-> args, subject |-> subject,
     from |-> state, to |-> r.to,
     before |-> shopping_cart, after |-> r.cart,
     out |-> r.out, panic |-> r.panic]

\* ---------------------------------------------------------------- Init
\* No customer exists yet and nothing has been printed.
NoCustomer ==
    /\ state = "None"
    /\ shopping_cart = <<>>
    /\ live = {}
    /\ moved = {}
    /\ stdout = <<>>
    /\ hist = <<>>
    /\ panicked = FALSE

\* The locals of main: the three flags, the catalogue, its first item and
\* the items the loop has still to visit.
MainLocals(pc, sudden, mum, wallet, cat) ==
    [pc |-> pc,
     has_sudden_change_of_plan |-> sudden,
     is_using_mums_credit_card |-> mum,
     forgot_my_wallet |-> wallet,
     catalogue |-> cat,
     first |-> IF cat = <<>> THEN <<>> ELSE <<cat[1]>>,
     rest_of_items |-> IF cat = <<>> THEN <<>> ELSE Tail(cat)]

\* main is not running: the library is called by an arbitrary client.
Idle == MainLocals("idle", FALSE, FALSE, FALSE, <<>>)

Init ==
    /\ NoCustomer
    /\ main = Idle

\* ------------------------------------------------------------- actions
\* Customer::visit_site(): an associated function, no receiver.
Create ==
    /\ state = "None"
    /\ LET r == visit_site
       IN  /\ state' = r.to
           /\ shopping_cart' = r.cart
           /\ live' = {NextHandle}
           /\ moved' = moved
           /\ stdout' = stdout \o r.out
           /\ hist' = Append(hist, Event("visit_site", <<>>, 0, r))
           /\ panicked' = r.panic

\* A call h.op(args) on a live binding h of type Customer<state>.
Call(op, args) ==
    /\ ~panicked
    /\ <<state, op>> \in Impls
    /\ \E h \in live :
         LET r == Method(state, op, shopping_cart, args)
             kept == IF Receiver(op) = "self" THEN live \ {h} ELSE live
         IN  /\ state' = r.to
             /\ shopping_cart' = r.cart
             /\ live' = kept \cup (IF r.ret THEN {NextHandle} ELSE {})
             /\ moved' = IF Receiver(op) = "self" THEN moved \cup {h} ELSE moved
             /\ stdout' = stdout \o r.out
             /\ hist' = Append(hist, Event(op, args, h, r))
             /\ panicked' = r.panic

\* A client other than main calls visit_site.
VisitSite ==
    /\ Len(hist) < MaxOps
    /\ Create
    /\ UNCHANGED main

\* A client other than main calls a method.
Invoke(op, args) ==
    /\ Len(hist) < MaxOps
    /\ Call(op, args)
    /\ UNCHANGED main

Leave == Invoke("leave", <<>>)

BrowsingAddItem ==
    /\ state = "Browsing"
    /\ \E n \in IntInputs : AddItemAccepts(n) /\ Invoke("add_item", <<n>>)

ShoppingAddItem ==
    /\ state = "Shopping"
    /\ \E n \in IntInputs : AddItemAccepts(n) /\ Invoke("add_item", <<n>>)

PopItem == Invoke("pop_item", <<>>)

ClearCart == Invoke("clear_cart", <<>>)

ProceedToCheckout == Invoke("proceed_to_checkout", <<>>)

CancelCheckout == Invoke("cancel_checkout", <<>>)

FinalisePayment == Invoke("finalise_payment", <<>>)

Next ==
    \/ VisitSite
    \/ Leave
    \/ BrowsingAddItem
    \/ ShoppingAddItem
    \/ PopItem
    \/ ClearCart
    \/ ProceedToCheckout
    \/ CancelCheckout
    \/ FinalisePayment

Spec == Init /\ [][Next]_vars

\* ---------------------------------------------------------------- main
\* let catalogue: Vec<u8> = vec![20, 42, 36, 13, 71, 100];
Catalogue == <<20, 42, 36, 13, 71, 100>>

\* The catalogues main is run with: the one of the source and its shorter
\* non-empty beginnings (split_first().unwrap() needs a first item).
Catalogues == { SubSeq(Catalogue, 1, n) : n \in 1..Len(Catalogue) }

ItemIsEven_odd(item) == item % 2 = 1

\* item % 2 == 0
ItemIsEven(item) == item % 2 = 0

\* main is started with any setting of its three flags; the source sets all
\* three to false and names the transition each one enables.
MainInit ==
    /\ NoCustomer
    /\ \E sudden, mum, wallet \in BOOLEAN : \E cat \in Catalogues :
         main = MainLocals("visit_site", sudden, mum, wallet, cat)

Goto(pc) == main' = [main EXCEPT !.pc = pc]

\* The for loop is over: every item of rest_of_items has been visited.
LoopDone == main.pc = "loop" /\ main.rest_of_items = <<>>

\* let mut browsing = Customer::visit_site();
MainVisitSite ==
    /\ main.pc = "visit_site"
    /\ Create
    /\ Goto("browsing")

\* if has_sudden_change_of_plan { browsing.leave(); return; }
MainLeave ==
    /\ main.pc = "browsing"
    /\ main.has_sudden_change_of_plan
    /\ Call("leave", <<>>)
    /\ Goto("done")

\* let mut shopping = browsing.add_item(*first);
MainAddFirst ==
    /\ main.pc = "browsing"
    /\ ~main.has_sudden_change_of_plan
    /\ Call("add_item", main.first)
    /\ Goto("loop")

\* if item % 2 == 0 { shopping = shopping.add_item(*item); }
MainLoopAdd ==
    /\ main.pc = "loop"
    /\ main.rest_of_items # <<>>
    /\ ItemIsEven(Head(main.rest_of_items))
    /\ Call("add_item", <<Head(main.rest_of_items)>>)
    /\ main' = [main EXCEPT !.rest_of_items = Tail(main.rest_of_items)]

\* else { shopping = shopping.pop_item(); }
MainLoopPop ==
    /\ main.pc = "loop"
    /\ main.rest_of_items # <<>>
    /\ ~ItemIsEven(Head(main.rest_of_items))
    /\ Call("pop_item", <<>>)
    /\ main' = [main EXCEPT !.rest_of_items = Tail(main.rest_of_items)]

\* if is_using_mums_credit_card { browsing = shopping.clear_cart(); ..
MainClearCart ==
    /\ LoopDone
    /\ main.is_using_mums_credit_card
    /\ Call("clear_cart", <<>>)
    /\ Goto("cleared")

\* .. browsing.leave(); return; }
MainLeaveCleared ==
    /\ main.pc = "cleared"
    /\ Call("leave", <<>>)
    /\ Goto("done")

\* let checkout = shopping.proceed_to_checkout();
MainProceedToCheckout ==
    /\ LoopDone
    /\ ~main.is_using_mums_credit_card
    /\ Call("proceed_to_checkout", <<>>)
    /\ Goto("checkout")

\* if forgot_my_wallet { shopping = checkout.cancel_checkout(); ..
MainCancelCheckout ==
    /\ main.pc = "checkout"
    /\ main.forgot_my_wallet
    /\ Call("cancel_checkout", <<>>)
    /\ Goto("cancelled")

\* .. browsing = shopping.clear_cart(); ..
MainClearCartCancelled ==
    /\ main.pc = "cancelled"
    /\ Call("clear_cart", <<>>)
    /\ Goto("cleared")

\* checkout.finalise_payment();
MainFinalisePayment ==
    /\ main.pc = "checkout"
    /\ ~main.forgot_my_wallet
    /\ Call("finalise_payment", <<>>)
    /\ Goto("done")

MainNext ==
    \/ MainVisitSite
    \/ MainLeave
    \/ MainAddFirst
    \/ MainLoopAdd
    \/ MainLoopPop
    \/ MainClearCart
    \/ MainLeaveCleared
    \/ MainProceedToCheckout
    \/ MainCancelCheckout
    \/ MainClearCartCancelled
    \/ MainFinalisePayment

SpecMain == MainInit /\ [][MainNext]_vars

\* ============================================================== claims
\* The rows of the transition table: <<from, operation, to>>.
TransitionTable ==
    { <<"None", "visit_site", "Browsing">>,
      <<"Browsing", "leave", "Left">>,
      <<"Browsing", "add_item", "Shopping">>,
      <<"Shopping", "add_item", "Shopping">>,
      <<"Shopping", "pop_item", "Shopping">>,
      <<"Shopping", "clear_cart", "Browsing">>,
      <<"Shopping", "proceed_to_checkout", "Checkout">>,
      <<"Checkout", "cancel_checkout", "Shopping">>,
      <<"Checkout", "finalise_payment", "Left">> }

\* The operations the table lists for a state.
TableOps(S) ==
    CASE S = "Browsing" -> {"leave", "add_item"}
      [] S = "Shopping" -> {"add_item", "pop_item", "clear_cart", "proceed_to_checkout"}
      [] S = "Checkout" -> {"cancel_checkout", "finalise_payment"}
      [] OTHER          -> {}

TerminalOps == {"leave", "finalise_payment"}

Events == { hist[i] : i \in 1..Len(hist) }

\* C1: in every reachable Browsing, Shopping or Checkout state the methods
\* callable on the customer are exactly those the transition table lists for
\* that state, and every call that is made is one of them.
C1_CallableIsTableRow ==
    /\ [](state \in TypeStates => Callable(state) = TableOps(state))
    /\ [][(state \in TypeStates) => (Last(hist').op \in TableOps(state))]_vars

C1_Witness ==
    /\ state = "Checkout"
    /\ \E e \in Events : e.from = "Browsing" /\ e.op = "add_item"
    /\ \E e \in Events : e.from = "Shopping" /\ e.op = "pop_item"
    /\ \E e \in Events : e.from = "Checkout" /\ e.op = "cancel_checkout"

\* C2: every step is a call, and it takes the customer from the state it
\* was called in to the state of that operation's row in the transition
\* table; the state changes in no other way.
C2_StepsFollowTable ==
    [][ /\ Len(hist') = Len(hist) + 1
        /\ Last(hist').from = state
        /\ <<state, Last(hist').op, state'>> \in TransitionTable ]_vars

C2_Witness ==
    /\ state = "Browsing"
    /\ Len(hist) > 1
    /\ Last(hist).op = "clear_cart"
    /\ \E e \in Events : e.op = "cancel_checkout" /\ e.to = "Shopping"

\* Replaying a call sequence on an ordinary sequence.
RECURSIVE Replay(_)
Replay(calls) ==
    IF calls = <<>>
    THEN <<>>
    ELSE LET prev == Replay(SubSeq(calls, 1, Len(calls) - 1))
             call == calls[Len(calls)]
         IN  CASE call.op = "add_item"   -> prev \o <<call.args[1]>>
               [] call.op = "pop_item"   -> IF prev = <<>>
                                            THEN prev
                                            ELSE [i \in 1..(Len(prev) - 1) |-> prev[i]]
               [] call.op = "clear_cart" -> <<>>
               [] OTHER                  -> prev

\* C3: after every sequence of valid transitions starting with visit_site
\* the cart equals the replay of the same calls on an ordinary sequence
\* (add_item appends, pop_item drops the last element if any, clear_cart
\* empties, everything else leaves it alone).
C3_CartRefinesSequence == shopping_cart = Replay(hist)

C3_Witness ==
    /\ Len(shopping_cart) = 2
    /\ shopping_cart[1] # shopping_cart[2]
    /\ \E e \in Events : e.op = "pop_item" /\ Len(e.before) = 2
    /\ \E e \in Events : e.op = "add_item" /\ e.before # <<>>

\* C4: no customer exists before visit_site; the first call of every flow is
\* visit_site, it is called exactly once, and it yields a Browsing customer
\* with an empty cart.
C4_OnlyVisitSiteCreates ==
    /\ state = "None" <=> hist = <<>>
    /\ state = "None" => live \cup moved = {}
    /\ \A i \in 1..Len(hist) : hist[i].op = "visit_site" <=> i = 1
    /\ hist # <<>> => /\ hist[1].from = "None"
                      /\ hist[1].to = "Browsing"
                      /\ hist[1].after = <<>>
    /\ Len(hist) = 1 => state = "Browsing" /\ shopping_cart = <<>> /\ live # {}

C4_Witness ==
    /\ Len(hist) = 1
    /\ hist[1].op = "visit_site"
    /\ state = "Browsing"
    /\ shopping_cart = <<>>

\* C5: after leave or finalise_payment the flow has ended: no binding is
\* live, no method is callable, and no further step happens, so neither the
\* state nor the cart changes again.
C5_TerminalIsFinal ==
    /\ []((hist # <<>> /\ Last(hist).op \in TerminalOps)
            => (state = "Left" /\ live = {} /\ Callable(state) = {}))
    /\ [](state = "Left" => (hist # <<>> /\ Last(hist).op \in TerminalOps))
    /\ [][~(Len(hist) > 0 /\ Last(hist).op \in TerminalOps)]_vars

C5_Witness ==
    /\ state = "Left"
    /\ Last(hist).op = "finalise_payment"
    /\ shopping_cart # <<>>

\* C6: no call panics; pop_item on an empty cart returns a Shopping customer
\* whose cart is still empty.
C6_PopEmptyIsNoOp ==
    /\ ~panicked
    /\ \A e \in Events :
         /\ ~e.panic
         /\ (e.op = "pop_item" /\ e.before = <<>>)
              => (e.after = <<>> /\ e.to = "Shopping")
    /\ (hist # <<>> /\ Last(hist).op = "pop_item" /\ Last(hist).before = <<>>)
         => (state = "Shopping" /\ shopping_cart = <<>>)

C6_Witness ==
    /\ hist # <<>>
    /\ Last(hist).op = "pop_item"
    /\ Last(hist).before = <<>>
    /\ state = "Shopping"

\* C7: while the flow runs exactly one binding of the customer is live, and
\* none before visit_site or after the end; a binding that a call was made
\* on has been moved, is not live, and is never the subject of a later call.
C7_OneLiveHandle ==
    /\ Cardinality(live) = IF state \in TypeStates THEN 1 ELSE 0
    /\ live \cap moved = {}
    /\ \A i \in 2..Len(hist) : hist[i].subject \in moved
    /\ \A i, j \in 2..Len(hist) : i # j => hist[i].subject # hist[j].subject

C7_Witness ==
    /\ state = "Checkout"
    /\ Cardinality(moved) >= 3
    /\ \E e \in Events : e.op = "pop_item"

\* C8 (as stated): add_item takes any integer.
C8_AnyIntegerAccepted ==
    state \in {"Browsing", "Shopping"} => \A n \in IntInputs : AddItemAccepts(n)

\* C8 (amended): add_item takes exactly the integers 0..255, and the cart
\* then holds that value, unchanged, as its last element after the former
\* contents.
C8_U8ItemStoredExactly ==
    /\ \A n \in IntInputs : AddItemAccepts(n) <=> (0 <= n /\ n <= 255)
    /\ \A e \in Events : e.op = "add_item" =>
         /\ e.args[1] \in 0..255
         /\ Len(e.after) = Len(e.before) + 1
         /\ Last(e.after) = e.args[1]
    /\ (hist # <<>> /\ Last(hist).op = "add_item")
         => Last(shopping_cart) = Last(hist).args[1]

C8_Witness ==
    /\ hist # <<>>
    /\ Last(hist).op = "add_item"
    /\ Last(hist).args = <<255>>
    /\ Last(shopping_cart) = 255
    /\ \E e \in Events : e.op = "add_item" /\ e.args = <<13>>

\* C9: add_item(x) immediately followed by pop_item() gives back the cart
\* that add_item was called with, in state Shopping, whether add_item was
\* called on a Browsing or on a Shopping customer.
C9_AddThenPopRestores ==
    \A i \in 1..(Len(hist) - 1) :
        (hist[i].op = "add_item" /\ hist[i + 1].op = "pop_item")
          => /\ hist[i + 1].after = hist[i].before
             /\ hist[i + 1].to = "Shopping"
             /\ (i + 1 = Len(hist)
                   => (shopping_cart = hist[i].before /\ state = "Shopping"))

C9_Witness ==
    /\ hist # <<>>
    /\ Last(hist).op = "pop_item"
    /\ \E i \in 1..(Len(hist) - 1) :
         /\ hist[i].op = "add_item" /\ hist[i].from = "Browsing"
         /\ hist[i + 1].op = "pop_item"
    /\ \E i \in 1..(Len(hist) - 1) :
         /\ hist[i].op = "add_item" /\ hist[i].from = "Shopping"
         /\ hist[i].before # <<>>
         /\ hist[i + 1].op = "pop_item"

\* C10: clear_cart is called on Shopping customers only, and whatever the
\* cart holds, the empty cart included, it yields the empty cart and a
\* Browsing customer.
C10_ClearCartEmpties ==
    /\ \A e \in Events : e.op = "clear_cart" =>
         (e.from = "Shopping" /\ e.after = <<>> /\ e.to = "Browsing")
    /\ (hist # <<>> /\ Last(hist).op = "clear_cart")
         => (shopping_cart = <<>> /\ state = "Browsing")

C10_Witness ==
    /\ hist # <<>>
    /\ Last(hist).op = "clear_cart"
    /\ Last(hist).before = <<>>
    /\ \E e \in Events : e.op = "clear_cart" /\ Len(e.before) = 1

\* C11: proceed_to_checkout immediately followed by cancel_checkout is a
\* round trip: the cart after the pair is the cart before it and the customer
\* is Shopping again, for every such pair of the call sequence (so also when
\* the pair is repeated).
C11_CheckoutRoundTrip ==
    \A i \in 1..(Len(hist) - 1) :
        (hist[i].op = "proceed_to_checkout" /\ hist[i + 1].op = "cancel_checkout")
          => /\ hist[i].from = "Shopping"
             /\ hist[i + 1].to = "Shopping"
             /\ hist[i + 1].after = hist[i].before
             /\ (i + 1 = Len(hist)
                   => (state = "Shopping" /\ shopping_cart = hist[i].before))

C11_Witness ==
    /\ Len(hist) >= 6
    /\ state = "Shopping"
    /\ shopping_cart # <<>>
    /\ hist[Len(hist) - 3].op = "proceed_to_checkout"
    /\ hist[Len(hist) - 2].op = "cancel_checkout"
    /\ hist[Len(hist) - 1].op = "proceed_to_checkout"
    /\ hist[Len(hist)].op = "cancel_checkout"

\* main as the source has it: the catalogue of the source, all flags false.
DefaultRun ==
    /\ main.catalogue = Catalogue
    /\ ~main.has_sudden_change_of_plan
    /\ ~main.is_using_mums_credit_card
    /\ ~main.forgot_my_wallet

\* The calls of the demonstration scenario and the cart after each.
ScenarioOps ==
    << "visit_site", "add_item", "add_item", "add_item", "pop_item",
       "pop_item", "add_item", "proceed_to_checkout", "finalise_payment" >>

ScenarioCarts ==
    << <<>>, <<20>>, <<20, 42>>, <<20, 42, 36>>, <<20, 42>>,
       <<20>>, <<20, 100>>, <<20, 100>>, <<20, 100>> >>

\* C12: the demonstration scenario makes the calls visit_site, add_item(20),
\* add_item(42), add_item(36), pop_item, pop_item, add_item(100),
\* proceed_to_checkout, finalise_payment, with the carts [], [20], [20,42],
\* [20,42,36], [20,42], [20], [20,100], [20,100], [20,100] after them, and
\* ends with the flow terminated and the cart [20,100].
C12_DemoScenario ==
    DefaultRun =>
      /\ Len(hist) <= Len(ScenarioOps)
      /\ \A k \in 1..Len(hist) :
           /\ hist[k].op = ScenarioOps[k]
           /\ hist[k].after = ScenarioCarts[k]
      /\ shopping_cart = ScenarioCarts[IF hist = <<>> THEN 1 ELSE Len(hist)]
      /\ main.pc = "done" <=> Len(hist) = Len(ScenarioOps)
      /\ main.pc = "done" => (state = "Left" /\ shopping_cart = <<20, 100>>)

C12_Witness ==
    /\ DefaultRun
    /\ main.pc = "done"
    /\ state = "Left"
    /\ shopping_cart = <<20, 100>>
    /\ Last(hist).op = "finalise_payment"

\* The operations that only change the logical state.
FrameOps ==
    {"proceed_to_checkout", "cancel_checkout", "leave", "finalise_payment"}

\* C14: a step that is a call of proceed_to_checkout, cancel_checkout, leave
\* or finalise_payment changes the state and leaves the cart as it was,
\* element for element.
C14_LogicalOpsKeepCart ==
    [][ (Last(hist').op \in FrameOps)
          => /\ shopping_cart' = shopping_cart
             /\ Last(hist').after = Last(hist').before
             /\ state' # state ]_vars

C14_Witness ==
    /\ state = "Left"
    /\ Last(hist).op = "finalise_payment"
    /\ shopping_cart # <<>>
    /\ \E e \in Events : e.op = "cancel_checkout" /\ e.before # <<>>
    /\ \E e \in Events : e.op = "proceed_to_checkout" /\ e.before # <<>>

\* The text each operation prints.
TraceText(op) ==
    CASE op = "visit_site"          -> "Hi site!"
      [] op = "leave"               -> "Not buying anything, bye site!"
      [] op = "add_item"            -> "Added {} to cart ({:?})"
      [] op = "pop_item"            -> "Removed {} from cart ({:?})"
      [] op = "clear_cart"          -> "Cart has been cleared."
      [] op = "proceed_to_checkout" -> "Proceeding to checkout."
      [] op = "cancel_checkout"     -> "Cancelling checkout, continue shopping."
      [] op = "finalise_payment"    -> "Done paying for the items, bye site!"

\* C15: every call appends exactly one line to the end of the trace, the line
\* of its operation, except pop_item on an empty cart, which appends nothing;
\* the line of add_item shows the item and the cart after the append, the
\* line of pop_item shows the removed item and the cart after the removal,
\* the other lines show neither.
C15_OneTraceLinePerCall ==
    [][ LET call == Last(hist')
        IN  IF call.op = "pop_item" /\ shopping_cart = <<>>
            THEN stdout' = stdout
            ELSE /\ Len(stdout') = Len(stdout) + 1
                 /\ SubSeq(stdout', 1, Len(stdout)) = stdout
                 /\ Last(stdout').text = TraceText(call.op)
                 /\ Last(stdout').item =
                      (CASE call.op = "add_item" -> call.args
                         [] call.op = "pop_item" -> <<Last(shopping_cart)>>
                         [] OTHER                -> <<>>)
                 /\ Last(stdout').cart =
                      (IF call.op \in {"add_item", "pop_item"}
                       THEN <<shopping_cart'>>
                       ELSE <<>>) ]_vars

C15_Witness ==
    /\ Len(hist) = 6
    /\ Len(stdout) = 5
    /\ \E e \in Events : e.op = "pop_item" /\ e.before = <<>>
    /\ \E e \in Events : e.op = "pop_item" /\ Len(e.before) = 2
    /\ \E e \in Events : e.op = "add_item" /\ e.from = "Shopping"

\* C16: a Browsing customer has an empty cart: Browsing is entered only by
\* visit_site and clear_cart, every call made on a Browsing customer (leave
\* included) finds the cart empty, and add_item(x) on it yields the cart [x].
C16_BrowsingCartEmpty ==
    /\ state = "Browsing" => shopping_cart = <<>>
    /\ \A e \in Events :
         /\ e.to = "Browsing" => (e.op \in {"visit_site", "clear_cart"} /\ e.after = <<>>)
         /\ e.from = "Browsing" => e.before = <<>>
         /\ (e.from = "Browsing" /\ e.op = "add_item") => e.after = e.args

C16_Witness ==
    /\ state = "Left"
    /\ Last(hist).op = "leave"
    /\ \E e \in Events : e.op = "clear_cart" /\ e.before # <<>>
    /\ Cardinality({ i \in 1..Len(hist) :
                       hist[i].from = "Browsing" /\ hist[i].op = "add_item" }) = 2

\* C17: Shopping and Checkout customers may have an empty cart.  Such a
\* state arises only after a pop_item has removed the last item; in it
\* proceed_to_checkout (Shopping) and finalise_payment (Checkout) are
\* callable, and called with an empty cart they go to Checkout and to the
\* end of the flow without error and with the cart still empty.
C17_EmptyCartCheckout ==
    /\ (state \in {"Shopping", "Checkout"} /\ shopping_cart = <<>>)
         => \E e \in Events : e.op = "pop_item" /\ Len(e.before) = 1 /\ e.after = <<>>
    /\ (state = "Shopping" /\ shopping_cart = <<>>)
         => (~panicked /\ "proceed_to_checkout" \in Callable(state))
    /\ (state = "Checkout" /\ shopping_cart = <<>>)
         => (~panicked /\ "finalise_payment" \in Callable(state))
    /\ \A e \in Events :
         /\ (e.op = "proceed_to_checkout" /\ e.before = <<>>)
              => (~e.panic /\ e.to = "Checkout" /\ e.after = <<>>)
         /\ (e.op = "finalise_payment" /\ e.before = <<>>)
              => (~e.panic /\ e.to = "Left" /\ e.after = <<>>)

C17_Witness ==
    /\ state = "Left"
    /\ shopping_cart = <<>>
    /\ Len(hist) = 5
    /\ hist[2].op = "add_item"
    /\ hist[3].op = "pop_item"
    /\ hist[4].op = "proceed_to_checkout"
    /\ hist[5].op = "finalise_payment"

\* The argument lists a method can be called with.
ArgsOf(op) ==
    IF op = "add_item"
    THEN { <<n>> : n \in { k \in IntInputs : AddItemAccepts(k) } }
    ELSE { <<>> }

\* One call on a Customer<S> with this cart ends the flow.
EndsInOne(S, cart) ==
    \E op \in Callable(S) : \E args \in ArgsOf(op) :
        LET r == Method(S, op, cart, args)
        IN  ~r.panic /\ r.to = "Left"

\* At most two calls end the flow.
EndsInTwo(S, cart) ==
    \/ EndsInOne(S, cart)
    \/ \E op \in Callable(S) : \E args \in ArgsOf(op) :
         LET r == Method(S, op, cart, args)
         IN  ~r.panic /\ EndsInOne(r.to, r.cart)

\* C18: in every reachable Browsing, Shopping or Checkout state some method
\* is callable and can be called, and a call sequence of at most two calls
\* ends the flow, whatever the cart holds.
C18_NeverStuck ==
    state \in TypeStates =>
      /\ ~panicked
      /\ Callable(state) # {}
      /\ ENABLED (\E op \in Callable(state) : \E args \in ArgsOf(op) : Call(op, args))
      /\ EndsInTwo(state, shopping_cart)

C18_Witness ==
    /\ state = "Shopping"
    /\ Len(shopping_cart) = 2
    /\ Len(hist) = MaxOps
    /\ ~EndsInOne(state, shopping_cart)
    /\ EndsInTwo(state, shopping_cart)

====
